---------------------------- MODULE Spec2Model ----------------------------
(***************************************************************************)
(* generic-object-storage: the S3 and GCS adapters of IStorageBackend.     *)
(*                                                                         *)
(* Strings are sequences of one-character strings, so that trimming,       *)
(* joining, cleaning, escaping and substring search are computed the way   *)
(* the Go code computes them.  The provider (the S3 service behind         *)
(* IS3Client / IS3Uploader, the GCS bucket behind IGCSClient) is a map     *)
(* from keys to stored objects; every provider call either behaves as the  *)
(* healthy service does on that map or fails with an injected error.       *)
(***************************************************************************)
EXTENDS Integers, Sequences, FiniteSets, TLC

VARIABLES
    backend,     \* "S3" (S3Backend) or "GCS" (GoogleCSBackend)
    rawPrefix,   \* the prefix argument handed to the constructor
    Prefix,      \* b.Prefix
    store,       \* the bucket: key -> [Content, LastModified]
    clock,       \* the provider's clock, stamped on every write
    last,        \* the most recent contract call: arguments, provider requests, result
    lastPut,     \* the most recent successful PutObject no later write has followed
    calls,       \* concurrent callers: each goroutine's call in progress
    versions     \* concurrent callers: every object version the provider has stored

vars == <<backend, rawPrefix, Prefix, store, clock, last, lastPut, calls, versions>>

----------------------------------------------------------------------------
(* Bounds of the model. *)

\* writes (uploads and copies) the provider accepts in one behaviour
MaxClock == 3
\* largest page of keys one ListObjects response carries
MaxPageSize == 2

----------------------------------------------------------------------------
(* Strings. *)

\* the characters keys are made of, in byte order (S3 and GCS list keys in
\* lexicographic byte order)
Alphabet == <<"%", ".", "/", "2", "F", "b", "c", "h", "k", "t">>

Rank(c) == CHOOSE i \in 1..Len(Alphabet) : Alphabet[i] = c

\* s[i:j] of Go, 0-based, j exclusive
Slice(s, i, j) == SubSeq(s, i + 1, j)

HasPrefix(s, p) == Len(s) >= Len(p) /\ SubSeq(s, 1, Len(p)) = p

RECURSIVE StrLess(_, _)
StrLess(s, u) ==
    IF u = <<>> THEN FALSE
    ELSE IF s = <<>> THEN TRUE
    ELSE IF Head(s) = Head(u) THEN StrLess(Tail(s), Tail(u))
    ELSE Rank(Head(s)) < Rank(Head(u))

RECURSIVE Concat(_)
Concat(ss) == IF ss = <<>> THEN <<>> ELSE Head(ss) \o Concat(Tail(ss))

\* strings.Trim(s, "/")
RECURSIVE TrimLeft(_)
TrimLeft(s) == IF s # <<>> /\ Head(s) = "/" THEN TrimLeft(Tail(s)) ELSE s

RECURSIVE TrimRight(_)
TrimRight(s) ==
    IF s # <<>> /\ s[Len(s)] = "/" THEN TrimRight(SubSeq(s, 1, Len(s) - 1)) ELSE s

Trim(s) == TrimRight(TrimLeft(s))

\* index of the first occurrence of sub in s (0-based), -1 when there is none
RECURSIVE IndexFrom(_, _, _)
IndexFrom(s, sub, i) ==
    IF i > Len(s) - Len(sub) THEN -1
    ELSE IF Slice(s, i, i + Len(sub)) = sub THEN i
    ELSE IndexFrom(s, sub, i + 1)

\* strings.Replace(s, old, "", 1) for a non-empty old
ReplaceFirst(s, old) ==
    LET i == IndexFrom(s, old, 0)
    IN  IF i < 0 THEN s
        ELSE Slice(s, 0, i) \o Slice(s, i + Len(old), Len(s))

\* the elements of s between slashes, empty ones included
RECURSIVE SplitSlash(_, _)
SplitSlash(s, cur) ==
    IF s = <<>> THEN <<cur>>
    ELSE IF Head(s) = "/" THEN <<cur>> \o SplitSlash(Tail(s), <<>>)
    ELSE SplitSlash(Tail(s), Append(cur, Head(s)))

RECURSIVE JoinSlash(_)
JoinSlash(elems) ==
    IF elems = <<>> THEN <<>>
    ELSE IF Len(elems) = 1 THEN elems[1]
    ELSE elems[1] \o <<"/">> \o JoinSlash(Tail(elems))

\* path.Clean's walk over the elements: empty and "." elements are dropped,
\* ".." removes the element before it (or is dropped at the root, or kept
\* when nothing precedes it in a relative path)
RECURSIVE CleanElems(_, _, _)
CleanElems(elems, out, rooted) ==
    IF elems = <<>> THEN out
    ELSE LET e == Head(elems)
             rest == Tail(elems)
         IN  IF e = <<>> \/ e = <<".">> THEN CleanElems(rest, out, rooted)
             ELSE IF e = <<".", ".">> THEN
                 IF out # <<>> /\ out[Len(out)] # <<".", ".">>
                 THEN CleanElems(rest, SubSeq(out, 1, Len(out) - 1), rooted)
                 ELSE IF rooted THEN CleanElems(rest, out, rooted)
                 ELSE CleanElems(rest, Append(out, e), rooted)
             ELSE CleanElems(rest, Append(out, e), rooted)

\* path.Clean
Clean(s) ==
    IF s = <<>> THEN <<".">>
    ELSE LET rooted == Head(s) = "/"
             body == JoinSlash(CleanElems(SplitSlash(s, <<>>), <<>>, rooted))
             r == IF rooted THEN <<"/">> \o body ELSE body
         IN  IF r = <<>> THEN <<".">> ELSE r

\* the buffer path.Join builds before cleaning it: leading empty elements are
\* skipped, every later element is appended after a "/"
RECURSIVE JoinBuf(_, _)
JoinBuf(elems, buf) ==
    IF elems = <<>> THEN buf
    ELSE LET e == Head(elems)
         IN  IF buf # <<>> THEN JoinBuf(Tail(elems), buf \o <<"/">> \o e)
             ELSE IF e # <<>> THEN JoinBuf(Tail(elems), e)
             ELSE JoinBuf(Tail(elems), buf)

\* pathutil.Join(elem...)
Join(elems) ==
    IF Concat(elems) = <<>> THEN <<>> ELSE Clean(JoinBuf(elems, <<>>))

\* url.PathEscape over the characters keys are made of: letters, digits and
\* "." are kept, "/" becomes "%2F" and "%" becomes "%25"
RECURSIVE PathEscape(_)
PathEscape(s) ==
    IF s = <<>> THEN <<>>
    ELSE (IF Head(s) = "/" THEN <<"%", "2", "F">>
          ELSE IF Head(s) = "%" THEN <<"%", "2", "5">>
          ELSE <<Head(s)>>) \o PathEscape(Tail(s))

\* the provider's decoding of an escaped request header (x-amz-copy-source)
RECURSIVE PathUnescape(_)
PathUnescape(s) ==
    IF s = <<>> THEN <<>>
    ELSE IF Len(s) >= 3 /\ SubSeq(s, 1, 3) = <<"%", "2", "F">>
         THEN <<"/">> \o PathUnescape(SubSeq(s, 4, Len(s)))
    ELSE IF Len(s) >= 3 /\ SubSeq(s, 1, 3) = <<"%", "2", "5">>
         THEN <<"%">> \o PathUnescape(SubSeq(s, 4, Len(s)))
    ELSE <<Head(s)>> \o PathUnescape(Tail(s))

----------------------------------------------------------------------------
(* utility.go *)

\* cleanPrefix with the trimming left out
cleanPrefix_Untrimmed(prefix) == prefix

cleanPrefix(prefix) == Trim(prefix)

\* removePrefixFromObjectPath with the replacement left out
removePrefixFromObjectPath_Kept(prefix, path) == path

removePrefixFromObjectPath(prefix, path) ==
    IF prefix = <<>> THEN path
    ELSE ReplaceFirst(path, prefix \o <<"/">>)

----------------------------------------------------------------------------
(* Inputs. *)

Bucket == <<"b", "k">>

\* "test/hello.txt" and "test/hello-copy.txt" of the example program
Hello == <<"t", "/", "h">>
HelloCopy == <<"t", "/", "c">>

\* caller paths: the two example paths, and a rooted path ("/hello.txt")
Paths == {Hello, HelloCopy, <<"/", "h">>}

\* listing prefixes: everything, and "test/" of the example program
ListPrefixes == {<<>>, <<"t", "/">>}

\* constructor prefixes: none, and one with slashes to trim
RawPrefixes == {<<>>, <<"/", "t", "/">>}

\* object bodies, as byte sequences
Contents == {<<72, 105>>, <<>>}

Backends == {"S3", "GCS"}

----------------------------------------------------------------------------
(* Errors. *)

StatusNotFound == 404
StatusInternalServerError == 500

\* A provider error: the text err.Error() gives, and whether the provider
\* raised it because the addressed object key does not exist.
NoError == [msg |-> <<>>, absent |-> FALSE]

\* storage.ErrObjectNotExist.Error()
ErrObjectNotExistText ==
    <<"s","t","o","r","a","g","e",":"," ","o","b","j","e","c","t"," ",
      "d","o","e","s","n","'","t"," ","e","x","i","s","t">>

ErrObjectNotExist == [msg |-> ErrObjectNotExistText, absent |-> TRUE]

GCSForbidden ==
    [msg |-> <<"g","o","o","g","l","e","a","p","i",":"," ","E","r","r","o","r",
               " ","4","0","3",":"," ","F","o","r","b","i","d","d","e","n">>,
     absent |-> FALSE]

\* awserr texts, "<Code>: status code: <n>[, request id: <id>]"
S3NoSuchKey ==
    [msg |-> <<"N","o","S","u","c","h","K","e","y",":"," ","s","t","a","t","u","s",
               " ","c","o","d","e",":"," ","4","0","4">>,
     absent |-> TRUE]

S3NoSuchBucket ==
    [msg |-> <<"N","o","S","u","c","h","B","u","c","k","e","t",":"," ","s","t","a",
               "t","u","s"," ","c","o","d","e",":"," ","4","0","4">>,
     absent |-> FALSE]

S3AccessDenied ==
    [msg |-> <<"A","c","c","e","s","s","D","e","n","i","e","d",":"," ","s","t","a",
               "t","u","s"," ","c","o","d","e",":"," ","4","0","3",","," ","r","e",
               "q","u","e","s","t"," ","i","d",":"," ","7","B","4","0","4">>,
     absent |-> FALSE]

S3InternalError ==
    [msg |-> <<"I","n","t","e","r","n","a","l","E","r","r","o","r",":"," ","s","t",
               "a","t","u","s"," ","c","o","d","e",":"," ","5","0","0">>,
     absent |-> FALSE]

\* the errors a failing provider call can return
ProviderErrors(b) ==
    IF b = "S3" THEN {S3NoSuchKey, S3AccessDenied, S3InternalError}
    ELSE {ErrObjectNotExist, GCSForbidden}

\* a script for one contract call: provider call number `at` fails with `err`
\* (at = 0: every provider call behaves as the healthy service does)
NoFault == [at |-> 0, err |-> NoError]

Faults(b, maxAt) ==
    {NoFault} \cup [at : 1..maxAt, err : ProviderErrors(b)]

\* *ae.AppError: nil, or ae.GetAppErr(ctx, err, custom, code)
NilAppErr == [Code |-> "", HTTPCode |-> 0, Cause |-> NoError]

GetAppErr(err, custom, code) == [Code |-> custom, HTTPCode |-> code, Cause |-> err]

SetHTTPCode(appErr, code) == [appErr EXCEPT !.HTTPCode = code]

\* containsSubstring / contains / isS3NotFoundError of the S3 adapter
containsSubstring(s, substr) ==
    \E i \in 0..(Len(s) - Len(substr)) : Slice(s, i, i + Len(substr)) = substr

contains(s, substr) ==
    Len(s) >= Len(substr) /\ (s = substr \/ (Len(s) > 0 /\ containsSubstring(s, substr)))

isS3NotFoundError(err) ==
    IF err = NoError THEN FALSE
    ELSE \/ contains(err.msg, <<"N","o","S","u","c","h","K","e","y">>)
         \/ contains(err.msg, <<"N","o","t","F","o","u","n","d">>)
         \/ contains(err.msg, <<"4","0","4">>)

\* err.Error() == storage.ErrObjectNotExist.Error() of the GCS adapter
isGCSNotExist(err) == err.msg = ErrObjectNotExistText

----------------------------------------------------------------------------
(* Objects, requests and results. *)

\* storage.go Object (Meta is never set by either adapter)
Object(path, content, lastModified) ==
    [Path |-> path, Content |-> content, LastModified |-> lastModified]

\* var object Object; object.Path = path
ZeroObject(path) == Object(path, <<>>, 0)

\* one provider call as the adapter issued it; fields a call does not carry
\* are empty
Request(call, key, marker, source) ==
    [call |-> call, Key |-> key, Marker |-> marker, CopySource |-> source]

\* what a contract call leaves behind: its return values, the provider
\* calls it made, the listing responses it received, and the bucket after it
Result(err, object, objects, requests, pages, s, clk) ==
    [err |-> err, object |-> object, objects |-> objects, requests |-> requests,
     pages |-> pages, store |-> s, clock |-> clk]

\* a script for one contract call: the injected fault, the page size the
\* service uses for ListObjects, and whether the last page leaves IsTruncated nil
Script(fault, size, nilFlag) == [fault |-> fault, size |-> size, nilFlag |-> nilFlag]

Faulted(script, n) == script.fault.at = n

Min(a, b) == IF a < b THEN a ELSE b

RECURSIVE SortedKeys(_)
SortedKeys(S) ==
    IF S = {} THEN <<>>
    ELSE LET k == CHOOSE x \in S : \A o \in S : o = x \/ StrLess(x, o)
         IN  <<k>> \o SortedKeys(S \ {k})

\* the bucket after a write of body under key at time clk + 1
WriteKey(s, clk, key, body) ==
    [k \in DOMAIN s \cup {key} |->
        IF k = key THEN [Content |-> body, LastModified |-> clk + 1] ELSE s[k]]

RemoveKey(s, key) == [k \in DOMAIN s \ {key} |-> s[k]]

----------------------------------------------------------------------------
(* The S3 service behind IS3Client and IS3Uploader. *)

\* ListObjects: the keys with the prefix that sort after the marker, one page
\* of them, flagged truncated when more remain
S3ListObjects(s, prefix, marker, size, nilFlag) ==
    LET keys == SortedKeys({k \in DOMAIN s :
                    HasPrefix(k, prefix) /\ (marker = <<>> \/ StrLess(marker, k))})
        n == Min(size, Len(keys))
    IN  [Contents |-> [i \in 1..n |-> [Key |-> keys[i], LastModified |-> s[keys[i]].LastModified]],
         IsTruncated |-> IF Len(keys) > size THEN "true"
                         ELSE IF nilFlag THEN "nil" ELSE "false"]

\* CopyObject: x-amz-copy-source is decoded and split into bucket and key
S3CopySourceKey(copySource) ==
    LET decoded == PathUnescape(copySource)
        i == IndexFrom(decoded, <<"/">>, 0)
    IN  IF i < 0 THEN [Bucket |-> decoded, Key |-> <<>>]
        ELSE [Bucket |-> Slice(decoded, 0, i), Key |-> Slice(decoded, i + 1, Len(decoded))]

----------------------------------------------------------------------------
(* S3 error descriptors. *)

S3GetObjects == "ERR_OS_S3_2001"
S3GetObject == "ERR_OS_S3_2002"
S3PutObject == "ERR_OS_S3_2003"
S3DeleteObject == "ERR_OS_S3_2004"
S3CopyObject == "ERR_OS_S3_2005"

\* appErr := ae.GetAppErr(..., 500); if isS3NotFoundError(err) { SetHTTPCode(404) }
S3Classify(err, custom) ==
    LET appErr == GetAppErr(err, custom, StatusInternalServerError)
    IN  IF isS3NotFoundError(err) THEN SetHTTPCode(appErr, StatusNotFound) ELSE appErr

----------------------------------------------------------------------------
(* S3Backend. *)

S3Backend_GetObject(s, clk, prefix, path, script) ==
    LET key == Join(<<prefix, path>>)
        reqs == <<Request("GetObjectWithContext", key, <<>>, <<>>)>>
        err == IF Faulted(script, 1) THEN script.fault.err
               ELSE IF key \notin DOMAIN s THEN S3NoSuchKey
               ELSE NoError
    IN  IF err # NoError
        THEN Result(S3Classify(err, S3GetObject), ZeroObject(path), <<>>, reqs, <<>>, s, clk)
        ELSE LET reqs2 == Append(reqs, Request("ReadAll", key, <<>>, <<>>))
             IN  IF Faulted(script, 2)
                 THEN Result(GetAppErr(script.fault.err, S3GetObject, StatusInternalServerError),
                             ZeroObject(path), <<>>, reqs2, <<>>, s, clk)
                 ELSE Result(NilAppErr, Object(path, s[key].Content, s[key].LastModified),
                             <<>>, reqs2, <<>>, s, clk)

\* objects = append(objects, Object{Path: removePrefix..., Content: []byte{}, ...})
ListedObjects(fullPrefix, contents) ==
    [i \in 1..Len(contents) |->
        Object(removePrefixFromObjectPath(fullPrefix, contents[i].Key), <<>>,
               contents[i].LastModified)]

\* if IsTruncated == nil || !*IsTruncated { break }
S3LoopBreaks(isTruncated) == isTruncated = "nil" \/ isTruncated # "true"

\* the marker taken from the first key of the page instead of the last
S3NextMarker_First(contents) == contents[1].Key

\* s3Input.Marker = s3Result.Contents[len(s3Result.Contents)-1].Key
S3NextMarker(contents) == contents[Len(contents)].Key

\* the failure return with the accumulated objects dropped (return nil, appErr)
S3ListFailed_Nil(err, objects, requests, pages, s, clk) ==
    Result(S3Classify(err, S3GetObjects), ZeroObject(<<>>), <<>>, requests, pages, s, clk)

\* return objects, appErr
S3ListFailed(err, objects, requests, pages, s, clk) ==
    Result(S3Classify(err, S3GetObjects), ZeroObject(<<>>), objects, requests, pages, s, clk)

\* the for loop of GetObjects, entered for its n-th ListObjects request
RECURSIVE S3GetObjectsLoop(_, _, _, _, _, _, _, _)
S3GetObjectsLoop(s, clk, fullPrefix, marker, n, script, objects, acc) ==
    LET reqs == Append(acc.requests, Request("ListObjectsWithContext", fullPrefix, marker, <<>>))
    IN  IF Faulted(script, n)
        THEN S3ListFailed(script.fault.err, objects, reqs, acc.pages, s, clk)
        ELSE LET s3Result == S3ListObjects(s, fullPrefix, marker, script.size, script.nilFlag)
                 objs == objects \o ListedObjects(fullPrefix, s3Result.Contents)
                 pages == Append(acc.pages, s3Result)
             IN  IF S3LoopBreaks(s3Result.IsTruncated)
                 THEN Result(NilAppErr, ZeroObject(<<>>), objs, reqs, pages, s, clk)
                 ELSE S3GetObjectsLoop(s, clk, fullPrefix, S3NextMarker(s3Result.Contents),
                                       n + 1, script, objs,
                                       [requests |-> reqs, pages |-> pages])

S3Backend_GetObjects(s, clk, prefix, listPrefix, script) ==
    S3GetObjectsLoop(s, clk, Join(<<prefix, listPrefix>>), <<>>, 1, script, <<>>,
                     [requests |-> <<>>, pages |-> <<>>])

\* PutObject uploading under the caller's path, the prefix left out
S3Backend_PutObject_NoPrefix(s, clk, prefix, path, content, script) ==
    LET key == Join(<<path>>)
        reqs == <<Request("UploadWithContext", key, <<>>, <<>>)>>
    IN  IF Faulted(script, 1)
        THEN Result(GetAppErr(script.fault.err, S3PutObject, StatusInternalServerError),
                    ZeroObject(<<>>), <<>>, reqs, <<>>, s, clk)
        ELSE Result(NilAppErr, ZeroObject(<<>>), <<>>, reqs, <<>>,
                    WriteKey(s, clk, key, content), clk + 1)

S3Backend_PutObject(s, clk, prefix, path, content, script) ==
    LET key == Join(<<prefix, path>>)
        reqs == <<Request("UploadWithContext", key, <<>>, <<>>)>>
    IN  IF Faulted(script, 1)
        THEN Result(GetAppErr(script.fault.err, S3PutObject, StatusInternalServerError),
                    ZeroObject(<<>>), <<>>, reqs, <<>>, s, clk)
        ELSE Result(NilAppErr, ZeroObject(<<>>), <<>>, reqs, <<>>,
                    WriteKey(s, clk, key, content), clk + 1)

S3Backend_DeleteObject(s, clk, prefix, path, script) ==
    LET key == Join(<<prefix, path>>)
        reqs == <<Request("DeleteObjectWithContext", key, <<>>, <<>>)>>
    IN  IF Faulted(script, 1)
        THEN Result(S3Classify(script.fault.err, S3DeleteObject), ZeroObject(<<>>), <<>>,
                    reqs, <<>>, s, clk)
        ELSE Result(NilAppErr, ZeroObject(<<>>), <<>>, reqs, <<>>, RemoveKey(s, key), clk)

S3Backend_CopyObject(s, clk, prefix, srcPath, dstPath, script) ==
    LET copySource == Join(<<Bucket, prefix, srcPath>>)
        escaped == PathEscape(copySource)
        key == Join(<<prefix, dstPath>>)
        reqs == <<Request("CopyObjectWithContext", key, <<>>, escaped)>>
        src == S3CopySourceKey(escaped)
        err == IF Faulted(script, 1) THEN script.fault.err
               ELSE IF src.Bucket # Bucket THEN S3NoSuchBucket
               ELSE IF src.Key \notin DOMAIN s THEN S3NoSuchKey
               ELSE NoError
    IN  IF err # NoError
        THEN Result(S3Classify(err, S3CopyObject), ZeroObject(<<>>), <<>>, reqs, <<>>, s, clk)
        ELSE Result(NilAppErr, ZeroObject(<<>>), <<>>, reqs, <<>>,
                    WriteKey(s, clk, key, s[src.Key].Content), clk + 1)

----------------------------------------------------------------------------
(* GCS error descriptors. *)

GCSGetObjects == "ERR_OS_GCS_1001"
GCSGetObject == "ERR_OS_GCS_1002"
GCSPutObject == "ERR_OS_GCS_1003"
GCSDeleteObject == "ERR_OS_GCS_1004"
GCSCopyObject == "ERR_OS_GCS_1005"

\* appErr := ae.GetAppErr(..., 500)
\* if err.Error() == storage.ErrObjectNotExist.Error() { SetHTTPCode(404) }
GCSClassify(err, custom) ==
    LET appErr == GetAppErr(err, custom, StatusInternalServerError)
    IN  IF isGCSNotExist(err) THEN SetHTTPCode(appErr, StatusNotFound) ELSE appErr

\* errors.Wrap(err, "failed to read from reader stream")
WrapReadErr(err) ==
    [err EXCEPT !.msg = <<"f","a","i","l","e","d"," ","t","o"," ","r","e","a","d"," ",
                          "f","r","o","m"," ","r","e","a","d","e","r"," ","s","t","r",
                          "e","a","m",":"," ">> \o err.msg]

----------------------------------------------------------------------------
(* GoogleCSBackend. *)

\* the handle's calls on the healthy bucket: an absent object answers
\* storage.ErrObjectNotExist
GCSObjectErr(s, name) == IF name \in DOMAIN s THEN NoError ELSE ErrObjectNotExist

GoogleCSBackend_GetObject(s, clk, prefix, path, script) ==
    LET name == Join(<<prefix, path>>)
        call(c) == Request(c, name, <<>>, <<>>)
        reqs1 == <<call("Attrs")>>
        reqs2 == Append(reqs1, call("NewReader"))
        reqs3 == Append(reqs2, call("ReadAll"))
        reqs4 == Append(reqs3, call("Close"))
        err1 == IF Faulted(script, 1) THEN script.fault.err ELSE GCSObjectErr(s, name)
        err2 == IF Faulted(script, 2) THEN script.fault.err ELSE GCSObjectErr(s, name)
        internal(e) == GetAppErr(e, GCSGetObject, StatusInternalServerError)
    IN  IF err1 # NoError
        THEN Result(GCSClassify(err1, GCSGetObject), ZeroObject(path), <<>>, reqs1, <<>>, s, clk)
        ELSE LET withAttrs == Object(path, <<>>, s[name].LastModified)
             IN  IF err2 # NoError
                 THEN Result(internal(err2), withAttrs, <<>>, reqs2, <<>>, s, clk)
                 ELSE IF Faulted(script, 3)
                 THEN Result(internal(WrapReadErr(script.fault.err)), withAttrs, <<>>,
                             reqs3, <<>>, s, clk)
                 ELSE IF Faulted(script, 4)
                 THEN Result(internal(script.fault.err), withAttrs, <<>>, reqs4, <<>>, s, clk)
                 ELSE Result(NilAppErr, Object(path, s[name].Content, s[name].LastModified),
                             <<>>, reqs4, <<>>, s, clk)

\* return objects, appErr
GCSListFailed(err, objects, requests, pages, s, clk) ==
    Result(GCSClassify(err, GCSGetObjects), ZeroObject(<<>>), objects, requests, pages, s, clk)

\* the for loop of GetObjects, entered for its n-th it.Next(); items are the
\* attributes the iterator has still to deliver
RECURSIVE GCSGetObjectsLoop(_, _, _, _, _, _, _, _)
GCSGetObjectsLoop(s, clk, prefix, items, n, script, objects, acc) ==
    LET reqs == Append(acc.requests, Request("Next", prefix, <<>>, <<>>))
    IN  IF Faulted(script, n)
        THEN GCSListFailed(script.fault.err, objects, reqs, acc.pages, s, clk)
        ELSE IF items = <<>>
        THEN Result(NilAppErr, ZeroObject(<<>>), objects, reqs, acc.pages, s, clk)
        ELSE LET attrs == Head(items)
                 page == [Contents |-> <<attrs>>, IsTruncated |-> "nil"]
             IN  GCSGetObjectsLoop(s, clk, prefix, Tail(items), n + 1, script,
                                   objects \o ListedObjects(prefix, <<attrs>>),
                                   [requests |-> reqs, pages |-> Append(acc.pages, page)])

\* Objects(ctx, &storage.Query{Prefix: prefix}): the names with the prefix, in order
GCSObjects(s, prefix) ==
    LET keys == SortedKeys({k \in DOMAIN s : HasPrefix(k, prefix)})
    IN  [i \in 1..Len(keys) |-> [Key |-> keys[i], LastModified |-> s[keys[i]].LastModified]]

GoogleCSBackend_GetObjects(s, clk, prefix, listPrefix, script) ==
    LET fullPrefix == Join(<<prefix, listPrefix>>)
    IN  GCSGetObjectsLoop(s, clk, fullPrefix, GCSObjects(s, fullPrefix), 1, script, <<>>,
                          [requests |-> <<>>, pages |-> <<>>])

GoogleCSBackend_PutObject(s, clk, prefix, path, content, script) ==
    LET name == Join(<<prefix, path>>)
        reqs1 == <<Request("Write", name, <<>>, <<>>)>>
        reqs2 == Append(reqs1, Request("Close", name, <<>>, <<>>))
    IN  IF Faulted(script, 1)
        THEN Result(GCSClassify(script.fault.err, GCSPutObject), ZeroObject(<<>>), <<>>,
                    reqs1, <<>>, s, clk)
        ELSE IF Faulted(script, 2)
        THEN Result(GetAppErr(script.fault.err, GCSPutObject, StatusInternalServerError),
                    ZeroObject(<<>>), <<>>, reqs2, <<>>, s, clk)
        ELSE Result(NilAppErr, ZeroObject(<<>>), <<>>, reqs2, <<>>,
                    WriteKey(s, clk, name, content), clk + 1)

GoogleCSBackend_DeleteObject(s, clk, prefix, path, script) ==
    LET name == Join(<<prefix, path>>)
        reqs == <<Request("Delete", name, <<>>, <<>>)>>
        err == IF Faulted(script, 1) THEN script.fault.err ELSE GCSObjectErr(s, name)
    IN  IF err # NoError
        THEN Result(GCSClassify(err, GCSDeleteObject), ZeroObject(<<>>), <<>>, reqs, <<>>, s, clk)
        ELSE Result(NilAppErr, ZeroObject(<<>>), <<>>, reqs, <<>>, RemoveKey(s, name), clk)

\* CopyObject with the prefix joined to both paths, as the other operations do
GoogleCSBackend_CopyObject_Joined(s, clk, prefix, srcPath, dstPath, script) ==
    LET src == Join(<<prefix, srcPath>>)
        dst == Join(<<prefix, dstPath>>)
        reqs == <<Request("CopierFrom.Run", dst, <<>>, src)>>
        err == IF Faulted(script, 1) THEN script.fault.err ELSE GCSObjectErr(s, src)
    IN  IF err # NoError
        THEN Result(GCSClassify(err, GCSCopyObject), ZeroObject(<<>>), <<>>, reqs, <<>>, s, clk)
        ELSE Result(NilAppErr, ZeroObject(<<>>), <<>>, reqs, <<>>,
                    WriteKey(s, clk, dst, s[src].Content), clk + 1)

GoogleCSBackend_CopyObject(s, clk, prefix, srcPath, dstPath, script) ==
    LET src == srcPath
        dst == dstPath
        reqs == <<Request("CopierFrom.Run", dst, <<>>, src)>>
        err == IF Faulted(script, 1) THEN script.fault.err ELSE GCSObjectErr(s, src)
    IN  IF err # NoError
        THEN Result(GCSClassify(err, GCSCopyObject), ZeroObject(<<>>), <<>>, reqs, <<>>, s, clk)
        ELSE Result(NilAppErr, ZeroObject(<<>>), <<>>, reqs, <<>>,
                    WriteKey(s, clk, dst, s[src].Content), clk + 1)

----------------------------------------------------------------------------
(* IStorageBackend, dispatched on the adapter in use. *)

Backend_GetObject(b, s, clk, prefix, path, script) ==
    IF b = "S3" THEN S3Backend_GetObject(s, clk, prefix, path, script)
    ELSE GoogleCSBackend_GetObject(s, clk, prefix, path, script)

Backend_GetObjects(b, s, clk, prefix, listPrefix, script) ==
    IF b = "S3" THEN S3Backend_GetObjects(s, clk, prefix, listPrefix, script)
    ELSE GoogleCSBackend_GetObjects(s, clk, prefix, listPrefix, script)

Backend_PutObject(b, s, clk, prefix, path, content, script) ==
    IF b = "S3" THEN S3Backend_PutObject(s, clk, prefix, path, content, script)
    ELSE GoogleCSBackend_PutObject(s, clk, prefix, path, content, script)

Backend_DeleteObject(b, s, clk, prefix, path, script) ==
    IF b = "S3" THEN S3Backend_DeleteObject(s, clk, prefix, path, script)
    ELSE GoogleCSBackend_DeleteObject(s, clk, prefix, path, script)

Backend_CopyObject(b, s, clk, prefix, srcPath, dstPath, script) ==
    IF b = "S3" THEN S3Backend_CopyObject(s, clk, prefix, srcPath, dstPath, script)
    ELSE GoogleCSBackend_CopyObject(s, clk, prefix, srcPath, dstPath, script)

\* provider calls one GetObject / PutObject / other call can make
MaxCalls(b, op) ==
    IF op = "GetObject" THEN (IF b = "S3" THEN 2 ELSE 4)
    ELSE IF op = "PutObject" THEN (IF b = "S3" THEN 1 ELSE 2)
    ELSE 1

----------------------------------------------------------------------------
(* The state machine. *)

EmptyStore == [k \in {} |-> [Content |-> <<>>, LastModified |-> 0]]

NoPut == [set |-> FALSE, path |-> <<>>, content |-> <<>>]

\* the record of a contract call
Call(op, path, dst, content, script, res) ==
    [op |-> op, path |-> path, dst |-> dst, content |-> content, script |-> script,
     err |-> res.err, object |-> res.object, objects |-> res.objects,
     requests |-> res.requests, pages |-> res.pages]

NoCall ==
    [op |-> "none", path |-> <<>>, dst |-> <<>>, content |-> <<>>,
     script |-> Script(NoFault, 1, FALSE),
     err |-> NilAppErr, object |-> ZeroObject(<<>>), objects |-> <<>>,
     requests |-> <<>>, pages |-> <<>>]

\* goroutines that call one adapter instance at the same time
Procs == {1, 2}

\* a goroutine's call: its arguments, the handler's local variables (the
\* object and objects being built, s3Input.Marker, the open s3Result and
\* rc), the provider requests issued and listing responses received so far,
\* and, once the handler has returned, its error
IdleCall ==
    [op |-> "none", path |-> <<>>, dst |-> <<>>, content |-> <<>>,
     returned |-> FALSE, err |-> NilAppErr,
     object |-> ZeroObject(<<>>), objects |-> <<>>,
     requests |-> <<>>, pages |-> <<>>,
     marker |-> <<>>,
     s3Result |-> [Body |-> <<>>, LastModified |-> 0],
     rc |-> <<>>]

NoCalls == [p \in Procs |-> IdleCall]

\* NewS3Backend* / NewGoogleCSBackend: Prefix: cleanPrefix(prefix)
Init ==
    /\ backend \in Backends
    /\ rawPrefix \in RawPrefixes
    /\ Prefix = cleanPrefix(rawPrefix)
    /\ store = EmptyStore
    /\ clock = 0
    /\ last = NoCall
    /\ lastPut = NoPut
    /\ calls = NoCalls
    /\ versions = {}

\* the injected fault, if any, is the one the call ran into
FaultHit(script, res) ==
    script.fault.at = 0 \/ (res.err # NilAppErr /\ Len(res.requests) = script.fault.at)

GetObject ==
    /\ last = NoCall
    /\ \E path \in Paths, fault \in Faults(backend, MaxCalls(backend, "GetObject")) :
        LET script == Script(fault, 1, FALSE)
            res == Backend_GetObject(backend, store, clock, Prefix, path, script)
        IN  /\ FaultHit(script, res)
            /\ last' = Call("GetObject", path, <<>>, <<>>, script, res)
            /\ UNCHANGED <<backend, rawPrefix, Prefix, store, clock, lastPut, calls, versions>>

GetObjects ==
    /\ last = NoCall
    /\ \E listPrefix \in ListPrefixes,
       fault \in Faults(backend, Cardinality(DOMAIN store) + 1),
       size \in 1..MaxPageSize,
       nilFlag \in BOOLEAN :
        LET script == Script(fault, size, nilFlag)
            res == Backend_GetObjects(backend, store, clock, Prefix, listPrefix, script)
        IN  /\ FaultHit(script, res)
            /\ backend = "GCS" => size = 1
            /\ nilFlag => (backend = "S3" /\ res.err = NilAppErr)
            /\ last' = Call("GetObjects", listPrefix, <<>>, <<>>, script, res)
            /\ UNCHANGED <<backend, rawPrefix, Prefix, store, clock, lastPut, calls, versions>>

PutObject ==
    /\ last = NoCall
    /\ \E path \in Paths, content \in Contents,
       fault \in Faults(backend, MaxCalls(backend, "PutObject")) :
        LET script == Script(fault, 1, FALSE)
            res == Backend_PutObject(backend, store, clock, Prefix, path, content, script)
        IN  /\ FaultHit(script, res)
            /\ res.clock <= MaxClock
            /\ last' = Call("PutObject", path, <<>>, content, script, res)
            /\ store' = res.store
            /\ clock' = res.clock
            /\ lastPut' = IF res.err = NilAppErr
                          THEN [set |-> TRUE, path |-> path, content |-> content]
                          ELSE NoPut
            /\ UNCHANGED <<backend, rawPrefix, Prefix, calls, versions>>

DeleteObject ==
    /\ last = NoCall
    /\ \E path \in Paths, fault \in Faults(backend, MaxCalls(backend, "DeleteObject")) :
        LET script == Script(fault, 1, FALSE)
            res == Backend_DeleteObject(backend, store, clock, Prefix, path, script)
        IN  /\ FaultHit(script, res)
            /\ last' = Call("DeleteObject", path, <<>>, <<>>, script, res)
            /\ store' = res.store
            /\ clock' = res.clock
            /\ lastPut' = NoPut
            /\ UNCHANGED <<backend, rawPrefix, Prefix, calls, versions>>

CopyObject ==
    /\ last = NoCall
    /\ \E srcPath \in Paths, dstPath \in Paths,
       fault \in Faults(backend, MaxCalls(backend, "CopyObject")) :
        LET script == Script(fault, 1, FALSE)
            res == Backend_CopyObject(backend, store, clock, Prefix, srcPath, dstPath, script)
        IN  /\ FaultHit(script, res)
            /\ res.clock <= MaxClock
            /\ last' = Call("CopyObject", srcPath, dstPath, <<>>, script, res)
            /\ store' = res.store
            /\ clock' = res.clock
            /\ lastPut' = NoPut
            /\ UNCHANGED <<backend, rawPrefix, Prefix, calls, versions>>

\* the caller takes the return values of its call; its next call follows
Return ==
    /\ last # NoCall
    /\ last' = NoCall
    /\ UNCHANGED <<backend, rawPrefix, Prefix, store, clock, lastPut, calls, versions>>

Next == GetObject \/ GetObjects \/ PutObject \/ DeleteObject \/ CopyObject \/ Return

Spec == Init /\ [][Next]_vars

----------------------------------------------------------------------------
(* Vocabulary of the properties. *)

Healthy == Script(NoFault, 1, FALSE)

\* what GetObject(path) returns in the current state from a healthy provider
FetchNow(path) == Backend_GetObject(backend, store, clock, Prefix, path, Healthy)

\* the entries of all listing responses of the last call, in the order received
ListedEntries == Concat([i \in 1..Len(last.pages) |-> last.pages[i].Contents])

\* path begins with the configured prefix as its leading component(s)
HasLeadingPrefix(path) ==
    Prefix # <<>> /\ (path = Prefix \/ HasPrefix(path, Prefix \o <<"/">>))

----------------------------------------------------------------------------
(* C1 *)

\* C1: on both adapters and for every prefix, a GetObject(p) that follows a
\* successful PutObject(p, c) with no write in between, and whose provider
\* calls do not fail, succeeds and returns Content byte-identical to c.
C1_RoundTrip ==
    (last.op = "GetObject" /\ lastPut.set /\ last.path = lastPut.path
        /\ last.script.fault.at = 0)
    => (last.err = NilAppErr /\ last.object.Content = lastPut.content)

C1_Witness ==
    /\ last.op = "GetObject" /\ lastPut.set /\ last.path = lastPut.path
    /\ last.err = NilAppErr /\ last.object.Content # <<>>
    /\ Prefix # <<>> /\ clock >= 2

----------------------------------------------------------------------------
(* C2 *)

\* C2 (as claimed): after a successful CopyObject(src, dst) of a src stored
\* through the adapter, GetObject(dst) succeeds and returns the content
\* GetObject(src) returns.
C2_DuplicateFetchesSame ==
    (last.op = "CopyObject" /\ last.err = NilAppErr
        /\ Join(<<Prefix, last.path>>) \in DOMAIN store)
    => /\ FetchNow(last.dst).err = NilAppErr
       /\ FetchNow(last.dst).object.Content = FetchNow(last.path).object.Content

----------------------------------------------------------------------------
(* C3 *)

----------------------------------------------------------------------------
(* C4 *)

PrefixSlashPath(path) == Prefix \o <<"/">> \o path

\* C4 (as claimed): the key GetObject, PutObject, DeleteObject and the S3
\* CopyObject send is exactly the normalized prefix, "/", the caller's path.
C4_KeyIsPrefixSlashPath ==
    /\ last.op \in {"GetObject", "PutObject", "DeleteObject"}
        => \A i \in 1..Len(last.requests) :
              last.requests[i].Key = PrefixSlashPath(last.path)
    /\ (last.op = "CopyObject" /\ backend = "S3")
        => /\ last.requests[1].Key = PrefixSlashPath(last.dst)
           /\ S3CopySourceKey(last.requests[1].CopySource).Key = PrefixSlashPath(last.path)

IsSlashes(s) == \A i \in 1..Len(s) : s[i] = "/"

\* a relative path with no empty, "." or ".." element
IsCleanRelative(path) ==
    /\ path # <<>>
    /\ \A i \in 1..Len(SplitSlash(path, <<>>)) :
          SplitSlash(path, <<>>)[i] \notin {<<>>, <<".">>, <<".", ".">>}

\* prefix "/" path, or the path alone under an empty prefix
ExpectedKey(path) == IF Prefix = <<>> THEN path ELSE PrefixSlashPath(path)

\* C4 (amended): the normalized prefix is the constructor argument with its
\* leading and trailing "/" trimmed; for a caller path that is relative and
\* has no empty, "." or ".." element (and a prefix with none either), the
\* key GetObject, PutObject, DeleteObject and the S3 CopyObject send is the
\* normalized prefix, "/", the path when the prefix is non-empty, and the
\* path alone, with no leading "/", when the prefix is empty.
C4_KeyIsJoinedPath ==
    /\ \E i, j \in 0..Len(rawPrefix) :
          /\ i + Len(Prefix) + j = Len(rawPrefix)
          /\ IsSlashes(SubSeq(rawPrefix, 1, i))
          /\ SubSeq(rawPrefix, i + 1, i + Len(Prefix)) = Prefix
          /\ IsSlashes(SubSeq(rawPrefix, i + Len(Prefix) + 1, Len(rawPrefix)))
    /\ Prefix # <<>> => (Head(Prefix) # "/" /\ Prefix[Len(Prefix)] # "/")
    /\ (Prefix = <<>> \/ IsCleanRelative(Prefix)) =>
        /\ (last.op \in {"GetObject", "PutObject", "DeleteObject"}
                /\ IsCleanRelative(last.path))
            => \A i \in 1..Len(last.requests) :
                  last.requests[i].Key = ExpectedKey(last.path)
        /\ (last.op = "CopyObject" /\ backend = "S3" /\ IsCleanRelative(last.dst))
            => last.requests[1].Key = ExpectedKey(last.dst)
        /\ (last.op = "CopyObject" /\ backend = "S3" /\ IsCleanRelative(last.path))
            => S3CopySourceKey(last.requests[1].CopySource) =
                  [Bucket |-> Bucket, Key |-> ExpectedKey(last.path)]

C4_Witness ==
    /\ backend = "S3" /\ last.op = "CopyObject" /\ last.err = NilAppErr
    /\ IsCleanRelative(last.path) /\ IsCleanRelative(last.dst)
    /\ Prefix # <<>> /\ rawPrefix # Prefix

----------------------------------------------------------------------------
(* C5 *)

MatchingKeys(fullPrefix) == SortedKeys({k \in DOMAIN store : HasPrefix(k, fullPrefix)})

\* C5: a GetObjects call whose page requests all succeed returns one Object
\* per entry of the pages received, in the order received, each entry once,
\* and these are all the keys the bucket holds under the listing prefix; on
\* S3 the first request carries no marker, each later request carries the
\* last key of the page before it, every page but the last is flagged
\* truncated and the last is not.
C5_ListAccumulatesAllPages ==
    (last.op = "GetObjects" /\ last.err = NilAppErr) =>
        LET fullPrefix == Join(<<Prefix, last.path>>)
            n == Len(last.pages)
        IN  /\ Len(last.objects) = Len(ListedEntries)
            /\ \A i \in 1..Len(last.objects) :
                  /\ last.objects[i].Path =
                        removePrefixFromObjectPath(fullPrefix, ListedEntries[i].Key)
                  /\ last.objects[i].Content = <<>>
                  /\ last.objects[i].LastModified = ListedEntries[i].LastModified
            /\ [i \in 1..Len(ListedEntries) |-> ListedEntries[i].Key] = MatchingKeys(fullPrefix)
            /\ backend = "S3" =>
                  /\ n >= 1 /\ Len(last.requests) = n
                  /\ last.requests[1].Marker = <<>>
                  /\ \A i \in 2..n :
                        last.requests[i].Marker =
                            last.pages[i - 1].Contents[Len(last.pages[i - 1].Contents)].Key
                  /\ \A i \in 1..(n - 1) : last.pages[i].IsTruncated = "true"
                  /\ last.pages[n].IsTruncated # "true"

C5_Witness ==
    /\ backend = "S3" /\ last.op = "GetObjects" /\ last.err = NilAppErr
    /\ Len(last.pages) >= 2 /\ Len(last.objects) >= 3
    /\ last.script.size = MaxPageSize

----------------------------------------------------------------------------
(* C6 *)

\* C6 (as claimed): a failing GetObject or CopyObject is classified 404
\* exactly when the provider's error says the key is absent and 500 for
\* every other provider error; a successful GetObject carries the content.
C6_NotFoundExactlyWhenAbsent ==
    /\ (last.op \in {"GetObject", "CopyObject"} /\ last.err # NilAppErr)
        => /\ last.err.HTTPCode = StatusNotFound <=> last.err.Cause.absent
           /\ last.err.HTTPCode = StatusInternalServerError <=> ~last.err.Cause.absent
    /\ (last.op = "GetObject" /\ last.err = NilAppErr)
        => last.object.Content = store[last.requests[1].Key].Content

----------------------------------------------------------------------------
(* C7 *)

\* C7 (as claimed): whenever a provider call made by PutObject fails,
\* PutObject returns an error classified 500, never 404; it returns no error
\* only when every provider call it made succeeded.
C7_StoreFailsInternal ==
    last.op = "PutObject" =>
        /\ last.script.fault.at # 0 => last.err # NilAppErr
        /\ last.err # NilAppErr => last.err.HTTPCode = StatusInternalServerError

----------------------------------------------------------------------------
(* C8 *)

\* C8 (as claimed): DeleteObject(p) issues one delete for the key of p; it
\* returns 404 when the provider's error says the key is absent, 500 for any
\* other provider error, and no error only when the delete returned none.
C8_RemoveClassification ==
    last.op = "DeleteObject" =>
        /\ Len(last.requests) = 1
        /\ last.requests[1].Key = Join(<<Prefix, last.path>>)
        /\ last.err = NilAppErr => last.script.fault.at = 0
        /\ last.err # NilAppErr =>
              /\ last.err.Cause.absent => last.err.HTTPCode = StatusNotFound
              /\ ~last.err.Cause.absent => last.err.HTTPCode = StatusInternalServerError

----------------------------------------------------------------------------
(* C9 *)

\* C9: when a page or iterator fetch fails during GetObjects, the failed
\* request is the last one the call makes, and the call returns the error
\* of that fetch together with exactly the objects of the pages received
\* before it.
C9_ListFailureKeepsPartial ==
    (last.op = "GetObjects" /\ last.script.fault.at # 0) =>
        LET fullPrefix == Join(<<Prefix, last.path>>)
        IN  /\ last.err # NilAppErr
            /\ last.err.Cause = last.script.fault.err
            /\ Len(last.requests) = last.script.fault.at
            /\ Len(last.pages) = last.script.fault.at - 1
            /\ Len(last.objects) = Len(ListedEntries)
            /\ \A i \in 1..Len(ListedEntries) :
                  /\ last.objects[i].Path =
                        removePrefixFromObjectPath(fullPrefix, ListedEntries[i].Key)
                  /\ last.objects[i].Content = <<>>
                  /\ last.objects[i].LastModified = ListedEntries[i].LastModified

C9_Witness ==
    /\ backend = "S3" /\ last.op = "GetObjects" /\ last.err # NilAppErr
    /\ last.script.fault.at >= 2 /\ Len(last.objects) >= 1

----------------------------------------------------------------------------
(* C10 *)

OnlyHelloStored == DOMAIN store = {Join(<<Prefix, Hello>>)}

\* C10 (as claimed): over an initially empty bucket, after
\* PutObject(Hello, c) GetObject returns c; GetObjects("t/") returns exactly
\* one Object, with Path Hello and empty Content; CopyObject(Hello,
\* HelloCopy) succeeds and GetObject of the copy returns c; and with both
\* removed, GetObject of either path is classified 404.
C10_ExampleScenario ==
    /\ (last.op = "PutObject" /\ last.path = Hello /\ last.err = NilAppErr
            /\ OnlyHelloStored)
        => /\ FetchNow(Hello).err = NilAppErr
           /\ FetchNow(Hello).object.Content = last.content
    /\ (last.op = "GetObjects" /\ last.path = <<"t", "/">> /\ last.err = NilAppErr
            /\ OnlyHelloStored)
        => /\ Len(last.objects) = 1
           /\ last.objects[1].Path = Hello
           /\ last.objects[1].Content = <<>>
    /\ (last.op = "CopyObject" /\ last.path = Hello /\ last.dst = HelloCopy
            /\ last.script.fault.at = 0
            /\ Join(<<Prefix, Hello>>) \in DOMAIN store
            /\ DOMAIN store \subseteq {Join(<<Prefix, Hello>>), Join(<<Prefix, HelloCopy>>)})
        => /\ last.err = NilAppErr
           /\ FetchNow(HelloCopy).err = NilAppErr
           /\ FetchNow(HelloCopy).object.Content = FetchNow(Hello).object.Content
    /\ (last.op = "DeleteObject" /\ last.err = NilAppErr /\ store = EmptyStore)
        => /\ FetchNow(Hello).err.HTTPCode = StatusNotFound
           /\ FetchNow(HelloCopy).err.HTTPCode = StatusNotFound

----------------------------------------------------------------------------
(* C12 *)

\* C12: the GCS CopyObject sends srcPath and dstPath to the provider as they
\* were given, the prefix joined to neither; the S3 CopyObject sends
\* Join(prefix, dstPath) as the destination key and Join(bucket, prefix,
\* srcPath) as the copy source, whose key is Join(prefix, srcPath) under a
\* non-empty prefix; and under a non-empty prefix the two adapters address
\* different source keys and different destination keys for the same
\* arguments.
C12_CopyPrefixAsymmetry ==
    last.op = "CopyObject" =>
        LET gcs == GoogleCSBackend_CopyObject(store, clock, Prefix, last.path, last.dst,
                                              Healthy).requests[1]
            s3 == S3Backend_CopyObject(store, clock, Prefix, last.path, last.dst,
                                       Healthy).requests[1]
        IN  /\ backend = "GCS" =>
                  /\ Len(last.requests) = 1
                  /\ last.requests[1].Key = last.dst
                  /\ last.requests[1].CopySource = last.path
            /\ backend = "S3" =>
                  /\ Len(last.requests) = 1
                  /\ last.requests[1].Key = Join(<<Prefix, last.dst>>)
                  /\ PathUnescape(last.requests[1].CopySource)
                        = Join(<<Bucket, Prefix, last.path>>)
                  /\ Prefix # <<>> =>
                        S3CopySourceKey(last.requests[1].CopySource)
                            = [Bucket |-> Bucket, Key |-> Join(<<Prefix, last.path>>)]
            /\ Prefix # <<>> =>
                  /\ gcs.Key # s3.Key
                  /\ gcs.CopySource # S3CopySourceKey(s3.CopySource).Key

C12_Witness ==
    /\ backend = "GCS" /\ last.op = "CopyObject" /\ last.err = NilAppErr
    /\ Prefix # <<>> /\ last.path # last.dst

----------------------------------------------------------------------------
(* C13 *)

\* C13 (as claimed): every Path a GetObjects call returns, passed unchanged
\* to GetObject on the same adapter, makes GetObject address the provider
\* key of the listing entry the Path came from.
C13_ListedPathFetchesListedKey ==
    last.op = "GetObjects" =>
        /\ Len(last.objects) = Len(ListedEntries)
        /\ \A i \in 1..Len(last.objects) :
              FetchNow(last.objects[i].Path).requests[1].Key = ListedEntries[i].Key

----------------------------------------------------------------------------
(* Concurrent callers.  Goroutines call the contract operations of one     *)
(* adapter instance at the same time.  A handler advances one provider     *)
(* call at a time; the provider is healthy and serves each call            *)
(* atomically: a download opened by GetObjectWithContext or NewReader      *)
(* delivers the body the key held when it was opened, and an upload        *)
(* appears when UploadWithContext or the writer's Close returns.           *)

\* writes (uploads and copies) the provider accepts in one concurrent behaviour
MaxWrites == 2

\* the paths concurrent callers pass: the two paths of the example program
ConcPaths == {Hello, HelloCopy}

\* the call a goroutine enters
NewCall(op, path, dst, content) ==
    [IdleCall EXCEPT !.op = op, !.path = path, !.dst = dst, !.content = content]

\* a call whose handler has returned res
Returned(op, path, dst, content, res) ==
    [NewCall(op, path, dst, content) EXCEPT
        !.returned = TRUE, !.err = res.err, !.object = res.object,
        !.objects = res.objects, !.requests = res.requests, !.pages = res.pages]

\* the object version a successful write has stored
Written(res) ==
    IF res.err # NilAppErr THEN {}
    ELSE LET key == res.requests[Len(res.requests)].Key
         IN  {[Key |-> key, Content |-> res.store[key].Content,
               LastModified |-> res.store[key].LastModified]}

\* S3Backend.GetObject up to the return of GetObjectWithContext
S3GetObject_Request(c, s, prefix) ==
    LET key == Join(<<prefix, c.path>>)
        c1 == [c EXCEPT !.object = ZeroObject(c.path),
                        !.requests = <<Request("GetObjectWithContext", key, <<>>, <<>>)>>]
    IN  IF key \notin DOMAIN s
        THEN [c1 EXCEPT !.returned = TRUE, !.err = S3Classify(S3NoSuchKey, S3GetObject)]
        ELSE [c1 EXCEPT !.s3Result = [Body |-> s[key].Content,
                                      LastModified |-> s[key].LastModified]]

\* S3Backend.GetObject from io.ReadAll(s3Result.Body) to its return
S3GetObject_ReadAll(c) ==
    [c EXCEPT !.returned = TRUE,
              !.requests = Append(@, Request("ReadAll", c.requests[1].Key, <<>>, <<>>)),
              !.object = Object(c.path, c.s3Result.Body, c.s3Result.LastModified)]

\* GoogleCSBackend.GetObject up to object.LastModified = attrs.Updated
GCSGetObject_Attrs(c, s, prefix) ==
    LET name == Join(<<prefix, c.path>>)
        c1 == [c EXCEPT !.object = ZeroObject(c.path),
                        !.requests = <<Request("Attrs", name, <<>>, <<>>)>>]
        err == GCSObjectErr(s, name)
    IN  IF err # NoError
        THEN [c1 EXCEPT !.returned = TRUE, !.err = GCSClassify(err, GCSGetObject)]
        ELSE [c1 EXCEPT !.object = Object(c.path, <<>>, s[name].LastModified)]

\* GoogleCSBackend.GetObject: rc, err := objectHandle.NewReader(ctx)
GCSGetObject_NewReader(c, s) ==
    LET name == c.requests[1].Key
        c1 == [c EXCEPT !.requests = Append(@, Request("NewReader", name, <<>>, <<>>))]
        err == GCSObjectErr(s, name)
    IN  IF err # NoError
        THEN [c1 EXCEPT !.returned = TRUE,
                        !.err = GetAppErr(err, GCSGetObject, StatusInternalServerError)]
        ELSE [c1 EXCEPT !.rc = s[name].Content]

\* GoogleCSBackend.GetObject from io.ReadAll(rc) to its return
GCSGetObject_ReadAll(c) ==
    LET name == c.requests[1].Key
    IN  [c EXCEPT !.returned = TRUE,
                  !.requests = @ \o <<Request("ReadAll", name, <<>>, <<>>),
                                      Request("Close", name, <<>>, <<>>)>>,
                  !.object = Object(c.path, c.rc, c.object.LastModified)]

\* one s3Input kept where the calls in progress share it: the marker is the
\* one another listing call has left there
S3InputMarker_Shared(cs, self) ==
    LET others == {p \in Procs \ {self} : cs[p].op = "GetObjects"}
    IN  IF others = {} THEN cs[self].marker
        ELSE cs[CHOOSE p \in others : TRUE].marker

\* s3Input is a local variable of GetObjects: the marker a request carries is
\* the one this call has set
S3InputMarker(cs, self) == cs[self].marker

\* one pass of the for loop of S3Backend.GetObjects
S3GetObjects_Iterate(cs, self, s, prefix, size) ==
    LET c == cs[self]
        fullPrefix == Join(<<prefix, c.path>>)
        marker == S3InputMarker(cs, self)
        s3Result == S3ListObjects(s, fullPrefix, marker, size, FALSE)
        c1 == [c EXCEPT
                 !.requests = Append(@, Request("ListObjectsWithContext", fullPrefix,
                                                marker, <<>>)),
                 !.pages = Append(@, s3Result),
                 !.objects = @ \o ListedObjects(fullPrefix, s3Result.Contents)]
    IN  IF S3LoopBreaks(s3Result.IsTruncated)
        THEN [c1 EXCEPT !.returned = TRUE]
        ELSE [c1 EXCEPT !.marker = S3NextMarker(s3Result.Contents)]

ConcInit ==
    /\ backend \in Backends
    /\ rawPrefix \in RawPrefixes
    /\ Prefix = cleanPrefix(rawPrefix)
    /\ store = EmptyStore
    /\ clock = 0
    /\ last = NoCall
    /\ lastPut = NoPut
    /\ calls = NoCalls
    /\ versions = {}

\* GetObject is entered and makes its first provider call
Call_GetObject(self) ==
    /\ calls[self] = IdleCall
    /\ \E path \in ConcPaths :
        LET c == NewCall("GetObject", path, <<>>, <<>>)
        IN  calls' = [calls EXCEPT ![self] =
                        IF backend = "S3" THEN S3GetObject_Request(c, store, Prefix)
                        ELSE GCSGetObject_Attrs(c, store, Prefix)]
    /\ UNCHANGED <<backend, rawPrefix, Prefix, store, clock, last, lastPut, versions>>

\* GetObject makes its next provider call
Step_GetObject(self) ==
    /\ calls[self].op = "GetObject"
    /\ ~calls[self].returned
    /\ calls' = [calls EXCEPT ![self] =
                    IF backend = "S3" THEN S3GetObject_ReadAll(@)
                    ELSE IF Len(@.requests) = 1 THEN GCSGetObject_NewReader(@, store)
                    ELSE GCSGetObject_ReadAll(@)]
    /\ UNCHANGED <<backend, rawPrefix, Prefix, store, clock, last, lastPut, versions>>

\* GetObjects is entered and fetches its first page (the GCS iterator's one
\* page holds every name, and the it.Next() calls that follow read from it)
Call_GetObjects(self) ==
    /\ calls[self] = IdleCall
    /\ \E listPrefix \in ListPrefixes, size \in 1..MaxPageSize :
        LET c == NewCall("GetObjects", listPrefix, <<>>, <<>>)
        IN  IF backend = "S3"
            THEN calls' = [calls EXCEPT ![self] =
                            S3GetObjects_Iterate([calls EXCEPT ![self] = c], self,
                                                 store, Prefix, size)]
            ELSE /\ size = 1
                 /\ calls' = [calls EXCEPT ![self] =
                                Returned("GetObjects", listPrefix, <<>>, <<>>,
                                         GoogleCSBackend_GetObjects(store, clock, Prefix,
                                                                    listPrefix, Healthy))]
    /\ UNCHANGED <<backend, rawPrefix, Prefix, store, clock, last, lastPut, versions>>

\* the S3 GetObjects fetches its next page
Step_GetObjects(self) ==
    /\ calls[self].op = "GetObjects"
    /\ ~calls[self].returned
    /\ \E size \in 1..MaxPageSize :
        calls' = [calls EXCEPT ![self] =
                    S3GetObjects_Iterate(calls, self, store, Prefix, size)]
    /\ UNCHANGED <<backend, rawPrefix, Prefix, store, clock, last, lastPut, versions>>

Call_PutObject(self) ==
    /\ calls[self] = IdleCall
    /\ \E path \in ConcPaths, content \in Contents :
        LET res == Backend_PutObject(backend, store, clock, Prefix, path, content, Healthy)
        IN  /\ res.clock <= MaxWrites
            /\ calls' = [calls EXCEPT ![self] = Returned("PutObject", path, <<>>, content, res)]
            /\ store' = res.store
            /\ clock' = res.clock
            /\ versions' = versions \cup Written(res)
    /\ UNCHANGED <<backend, rawPrefix, Prefix, last, lastPut>>

Call_DeleteObject(self) ==
    /\ calls[self] = IdleCall
    /\ \E path \in ConcPaths :
        LET res == Backend_DeleteObject(backend, store, clock, Prefix, path, Healthy)
        IN  /\ calls' = [calls EXCEPT ![self] = Returned("DeleteObject", path, <<>>, <<>>, res)]
            /\ store' = res.store
            /\ clock' = res.clock
    /\ UNCHANGED <<backend, rawPrefix, Prefix, last, lastPut, versions>>

Call_CopyObject(self) ==
    /\ calls[self] = IdleCall
    /\ \E srcPath \in ConcPaths, dstPath \in ConcPaths :
        LET res == Backend_CopyObject(backend, store, clock, Prefix, srcPath, dstPath, Healthy)
        IN  /\ res.clock <= MaxWrites
            /\ calls' = [calls EXCEPT ![self] = Returned("CopyObject", srcPath, dstPath, <<>>, res)]
            /\ store' = res.store
            /\ clock' = res.clock
            /\ versions' = versions \cup Written(res)
    /\ UNCHANGED <<backend, rawPrefix, Prefix, last, lastPut>>

\* the goroutine takes the return values of its call; its next call follows
Call_Return(self) ==
    /\ calls[self].returned
    /\ calls' = [calls EXCEPT ![self] = IdleCall]
    /\ UNCHANGED <<backend, rawPrefix, Prefix, store, clock, last, lastPut, versions>>

ConcNext ==
    \E self \in Procs :
        \/ Call_GetObject(self)
        \/ Step_GetObject(self)
        \/ Call_GetObjects(self)
        \/ Step_GetObjects(self)
        \/ Call_PutObject(self)
        \/ Call_DeleteObject(self)
        \/ Call_CopyObject(self)
        \/ Call_Return(self)

ConcSpec == ConcInit /\ [][ConcNext]_vars

----------------------------------------------------------------------------
(* C11 *)

\* the parameters of the requests call c has issued are those its own
\* arguments and the responses it has received determine
OwnRequests(c) ==
    LET key == Join(<<Prefix, c.path>>)
        n == Len(c.requests)
    IN  /\ c.op \in {"GetObject", "PutObject", "DeleteObject"} =>
              \A i \in 1..n :
                  /\ c.requests[i].Key = key
                  /\ c.requests[i].Marker = <<>>
                  /\ c.requests[i].CopySource = <<>>
        /\ c.op = "CopyObject" =>
              /\ n = 1
              /\ c.requests[1].Marker = <<>>
              /\ backend = "S3" =>
                    /\ c.requests[1].Key = Join(<<Prefix, c.dst>>)
                    /\ c.requests[1].CopySource = PathEscape(Join(<<Bucket, Prefix, c.path>>))
              /\ backend = "GCS" =>
                    /\ c.requests[1].Key = c.dst
                    /\ c.requests[1].CopySource = c.path
        /\ c.op = "GetObjects" =>
              /\ n >= 1
              /\ \A i \in 1..n :
                    /\ c.requests[i].Key = key
                    /\ c.requests[i].CopySource = <<>>
              /\ c.requests[1].Marker = <<>>
              /\ \A i \in 2..n :
                    c.requests[i].Marker =
                        IF backend = "S3"
                        THEN c.pages[i - 1].Contents[Len(c.pages[i - 1].Contents)].Key
                        ELSE <<>>

\* C11: no step of any contract operation changes the adapter's prefix or
\* the client it calls (the bucket is the same Bucket in every state), and
\* in every interleaving of the calls of two goroutines every request a call
\* has issued carries the key, listing prefix and marker that the call's own
\* arguments and the pages the call itself received determine.
C11_NoSharedCallState ==
    /\ [](\A self \in Procs : OwnRequests(calls[self]))
    /\ [][Prefix' = Prefix /\ rawPrefix' = rawPrefix /\ backend' = backend]_vars

C11_Witness ==
    \E p \in Procs, q \in Procs :
        /\ p # q
        /\ calls[p].op = "GetObjects" /\ Len(calls[p].requests) >= 2
        /\ calls[q].op = "GetObjects" /\ ~calls[q].returned
        /\ calls[p].path # calls[q].path

----------------------------------------------------------------------------
(* C14 *)

\* C14 (as claimed): in every interleaving, the Content and LastModified a
\* successful GetObject returns are those of one version the provider has
\* stored under the key.
C14_FetchReturnsOneVersion ==
    \A self \in Procs :
        (calls[self].op = "GetObject" /\ calls[self].returned
            /\ calls[self].err = NilAppErr)
        => \E v \in versions :
              /\ v.Key = calls[self].requests[1].Key
              /\ v.Content = calls[self].object.Content
              /\ v.LastModified = calls[self].object.LastModified

----------------------------------------------------------------------------
(* C15 *)

\* C15 (as claimed): in every interleaving on the healthy provider, a
\* GetObject that has returned either succeeded with the whole content of a
\* version stored under the key or failed classified 404; it never failed
\* classified 500.
C15_FetchNeverInternalOnRemoval ==
    \A self \in Procs :
        (calls[self].op = "GetObject" /\ calls[self].returned)
        => \/ /\ calls[self].err = NilAppErr
              /\ \E v \in versions :
                    /\ v.Key = calls[self].requests[1].Key
                    /\ v.Content = calls[self].object.Content
           \/ /\ calls[self].err # NilAppErr
              /\ calls[self].err.HTTPCode = StatusNotFound

=============================================================================
